---- MODULE Spec2Model ----
(***************************************************************************)
(* A model of the retrieval-augmented pipeline of enterprise-doc-search:   *)
(*   - LLMService.generate_answer   (backend/app/services/llm.py)          *)
(*   - RerankService.rerank         (backend/app/services/rerank.py)       *)
(*   - VectorService                (backend/app/services/vector.py)       *)
(*   - _chunk_text / process_pdf    (backend/app/services/ingestion.py)    *)
(*   - upload_document / query_documents (backend/app/api/*.py)            *)
(* Four specifications share the variables; each one moves only its own    *)
(* component and leaves the other components in their initial state.       *)
(***************************************************************************)
EXTENDS Integers, Sequences, FiniteSets, TLC

VARIABLES
    \* ---- LLMService (llm.py) ----
    llm_provider,   \* self.llm_provider: LLM_PROVIDER from the environment, lowercased
    llm_model,      \* self.llm_model: LLM_MODEL from the environment ("" when unset)
    api_keys,       \* providers whose API key / client is configured
    llm_backend,    \* what each (provider, model) call does during the request
    llm_calls,      \* the (provider, model) calls made, in order
    llm_result,     \* the value generate_answer returned
    llm_pc,         \* "idle" before generate_answer, "done" after it
    \* ---- RerankService (rerank.py) ----
    rr_docs,        \* the caller's documents list (its dicts are mutated in place)
    rr_input,       \* the documents as they were when rerank was called
    rr_top_k,       \* the top_k argument
    rr_response,    \* what requests.post / response.json() did
    rr_result,      \* the list rerank returned, or Raised
    rr_pc,          \* "idle" before rerank, "done" after it
    \* ---- _chunk_text (ingestion.py) ----
    ck_text,        \* the text argument
    ck_size,        \* chunk_size
    ck_overlap,     \* overlap
    ck_out,         \* the returned list of chunks
    ck_pc,          \* "idle" before _chunk_text, "done" after it
    \* ---- the application: upload.py, query.py, vector.py, process_pdf ----
    index,          \* the Pinecone index: id -> stored entry
    upload_model,   \* upload.py's vector_service.model (0 = None, else instance number)
    query_model,    \* query.py's vector_service.model  (0 = None, else instance number)
    models_built,   \* how many TextEmbedding instances were constructed
    model_uses,     \* the model instances used by embed/search calls, in order
    requests_done,  \* number of requests served
    last_request,   \* the last request: its kind, input and what the handler did
    last_response   \* the last HTTP response

llm_vars == <<llm_provider, llm_model, api_keys, llm_backend, llm_calls, llm_result, llm_pc>>
rr_vars  == <<rr_docs, rr_input, rr_top_k, rr_response, rr_result, rr_pc>>
ck_vars  == <<ck_text, ck_size, ck_overlap, ck_out, ck_pc>>
app_vars == <<index, upload_model, query_model, models_built, model_uses,
              requests_done, last_request, last_response>>
vars == <<llm_vars, rr_vars, ck_vars, app_vars>>

\* Python's None, as a string so that it compares with texts.
None == "<None>"
\* A call that raised an exception.
Raised == "<raised>"

Min(a, b) == IF a < b THEN a ELSE b

\* s[a+1 .. b] of Python's s[a:b] for 0 <= a (clamped to the sequence).
Slice(s, a, b) == SubSeq(s, a + 1, Min(b, Len(s)))

(***************************************************************************)
(*                          LLMService (llm.py)                            *)
(***************************************************************************)
LLM_PROVIDERS == <<"groq", "openai", "hf", "local">>
GROQ_MODELS == <<"mixtral-8x7b-32768", "llama2-70b-4096">>
OPENAI_MODELS == <<"gpt-4-1106-preview", "gpt-3.5-turbo">>
HF_CHAT_MODELS == <<"meta-llama/Llama-2-70b-chat-hf", "HuggingFaceH4/zephyr-7b-beta">>
HF_TEXT_MODELS == <<"mistralai/Mistral-7B-Instruct-v0.3">>
LOCAL_MODELS == <<>>

\* The values LLM_PROVIDER takes in the model: each known provider and an unknown one.
ProviderSettings == {"groq", "openai", "hf", "local", "anthropic"}
\* The values LLM_MODEL takes in the model: unset, or one explicit model.
ModelSettings == {"", "my-model"}
\* The providers that are called through an API key.
KeyedProviders == {"groq", "openai", "hf"}

\* The built-in model list of a provider (the lists the _try_* loops fall back to).
BuiltinModels(provider) ==
    CASE provider = "groq" -> GROQ_MODELS
      [] provider = "openai" -> OPENAI_MODELS
      [] provider = "hf" -> HF_CHAT_MODELS \o HF_TEXT_MODELS
      [] OTHER -> LOCAL_MODELS

\* ([self.llm_model] if self.llm_model else <PROVIDER>_MODELS)
ModelsOf(provider, model) ==
    IF provider \in KeyedProviders /\ model # "" THEN <<model>> ELSE BuiltinModels(provider)

\* Every (provider, model) call a request can make under LLM_MODEL = model.
Candidates(model) ==
    UNION {{<<p, ModelsOf(p, model)[i]>> : i \in 1..Len(ModelsOf(p, model))} :
           p \in KeyedProviders}

\* The non-empty text candidate c answers with, when it answers.
ReplyOf(c) == c[1] \o "/" \o c[2]

\* The loop of _try_groq / _try_openai / _try_hf over the models from position i:
\* a call that raises is logged and the next model is tried; the first call that
\* does not raise ends the loop with `content or ""`.
RECURSIVE TryModels(_, _, _, _)
TryModels(provider, models, i, backend) ==
    IF i > Len(models)
    THEN [ret |-> None, calls |-> <<>>]
    ELSE LET c == <<provider, models[i]>>
         IN IF backend[c] = Raised
            THEN LET rest == TryModels(provider, models, i + 1, backend)
                 IN [ret |-> rest.ret, calls |-> <<c>> \o rest.calls]
            ELSE [ret |-> backend[c], calls |-> <<c>>]

\* _try_groq, _try_openai, _try_hf, _try_local: None without a call when the
\* provider has no key; _try_local never calls anything.
TryProvider(provider, model, keys, backend) ==
    IF provider \in KeyedProviders /\ provider \in keys
    THEN TryModels(provider, ModelsOf(provider, model), 1, backend)
    ELSE [ret |-> None, calls |-> <<>>]

\* [self.llm_provider] + [p for p in LLM_PROVIDERS if p != self.llm_provider]
ProviderOrder(default) ==
    <<default>> \o SelectSeq(LLM_PROVIDERS, LAMBDA p : p # default)

\* Python truthiness of what a _try_* method returned.
Truthy(answer) == answer # None /\ answer # ""

FallbackUsed_Never(provider, default) == FALSE
FallbackUsed_Always(provider, default) == TRUE
\* "fallback_used": provider != self.llm_provider
FallbackUsed(provider, default) == provider # default

AllFailed_NoFlag == [answer |-> None, error |-> "All LLM providers failed.", fallback_used |-> FALSE]
\* The value returned when the provider loop is exhausted.
AllFailed == [answer |-> None, error |-> "All LLM providers failed.", fallback_used |-> TRUE]

\* The provider loop of generate_answer from position i of the provider order.
RECURSIVE AnswerFrom(_, _, _, _, _, _)
AnswerFrom(order, i, default, model, keys, backend) ==
    IF i > Len(order)
    THEN [result |-> AllFailed, calls |-> <<>>]
    ELSE LET provider == order[i]
             known == provider \in {"groq", "openai", "hf", "local"}
             try == IF known THEN TryProvider(provider, model, keys, backend)
                    ELSE [ret |-> None, calls |-> <<>>]
         IN IF known /\ Truthy(try.ret)
            THEN [result |-> [answer |-> try.ret, error |-> None,
                              fallback_used |-> FallbackUsed(provider, default)],
                  calls |-> try.calls]
            ELSE LET rest == AnswerFrom(order, i + 1, default, model, keys, backend)
                 IN [result |-> rest.result, calls |-> try.calls \o rest.calls]

\* LLMService.generate_answer(question, context); the backends' behaviour during
\* the request is the input.
GenerateAnswer ==
    /\ llm_pc = "idle"
    /\ \E backend \in [Candidates(llm_model) -> {Raised, "", "text"}] :
         LET be == [c \in Candidates(llm_model) |->
                        IF backend[c] = "text" THEN ReplyOf(c) ELSE backend[c]]
             run == AnswerFrom(ProviderOrder(llm_provider), 1, llm_provider,
                               llm_model, api_keys, be)
         IN /\ llm_backend' = be
            /\ llm_calls' = run.calls
            /\ llm_result' = run.result
    /\ llm_pc' = "done"
    /\ UNCHANGED <<llm_provider, llm_model, api_keys>>

(***************************************************************************)
(*                       RerankService (rerank.py)                         *)
(***************************************************************************)
\* Largest number of candidate documents and largest top_k explored.
MaxDocs == 3
MaxTopK == 2

\* The value under a document's "score" key: no such key, a number, or a value
\* that does not order against numbers (JSON null).
NoScore == [kind |-> "absent", v |-> 0]
NullScore == [kind |-> "null", v |-> 0]
Num(n) == [kind |-> "num", v |-> n]

\* The documents a caller passes at position i: a {text} dict, a {text, score}
\* dict, and a SearchResult-shaped {id, score, metadata} record, whose text is
\* under metadata and which has no "text" key.
DocsAt(i) ==
    {[id |-> i, has_text |-> TRUE, score |-> NoScore],
     [id |-> i, has_text |-> TRUE, score |-> Num(7)],
     [id |-> i, has_text |-> FALSE, score |-> Num(7)]}

DocLists ==
    UNION {{d \in [1..n -> UNION {DocsAt(i) : i \in 1..n}] : \A i \in 1..n : d[i] \in DocsAt(i)} :
           n \in 0..MaxDocs}

\* The JSON values a score list holds in the model.
ScoreValues == {NullScore, Num(1), Num(2)}

\* What the scoring request does: requests.post raises (timeout, transport
\* error), a status other than 200, a body response.json() cannot parse, a JSON
\* value that is not a list, or a JSON list.
Responses(n) ==
    {[kind |-> k, scores |-> <<>>] : k \in {"exception", "status", "unparseable", "notlist"}}
    \cup {[kind |-> "list", scores |-> sc] : sc \in UNION {[1..m -> ScoreValues] : m \in 0..(n + 1)}}

\* for doc, score in zip(documents, scores): doc["score"] = score
AssignScores(docs, scores) ==
    [i \in 1..Len(docs) |-> [docs[i] EXCEPT !.score = scores[i]]]

\* sorted() compares the keys; a None key against any other key raises TypeError.
\* With two or more elements every element takes part in a comparison.
SortRaises(docs) ==
    Len(docs) >= 2 /\ \E i \in 1..Len(docs) : docs[i].score.kind # "num"

\* x put into a list sorted by descending score, after the elements that are
\* not smaller (sorted(..., reverse=True) is stable).
RECURSIVE InsertDesc(_, _)
InsertDesc(sorted, x) ==
    IF sorted = <<>> THEN <<x>>
    ELSE IF Head(sorted).score.v >= x.score.v
         THEN <<Head(sorted)>> \o InsertDesc(Tail(sorted), x)
         ELSE <<x>> \o sorted

SortedDesc_Unsorted(docs) == docs
\* sorted(documents, key=lambda d: d["score"], reverse=True)
RECURSIVE SortedDesc(_)
SortedDesc(docs) ==
    IF docs = <<>> THEN <<>>
    ELSE InsertDesc(SortedDesc(SubSeq(docs, 1, Len(docs) - 1)), docs[Len(docs)])

\* RerankService.rerank(query, documents, top_k) under response resp:
\* ret is the returned list (or Raised), docs the caller's documents afterwards,
\* requested whether requests.post was called.
RerankCall(docs, top_k, resp) ==
    IF docs = <<>> THEN [ret |-> <<>>, docs |-> docs, requested |-> FALSE]
    ELSE IF \E i \in 1..Len(docs) : ~docs[i].has_text
    THEN [ret |-> Raised, docs |-> docs,     \* doc["text"] in the payload, before the try
          requested |-> FALSE]
    ELSE IF resp.kind # "list" \/ Len(resp.scores) # Len(docs)
    THEN [ret |-> Slice(docs, 0, top_k), docs |-> docs, requested |-> TRUE]
    ELSE LET scored == AssignScores(docs, resp.scores)
         IN IF SortRaises(scored)
            THEN [ret |-> Slice(scored, 0, top_k), docs |-> scored,   \* except Exception
                  requested |-> TRUE]
            ELSE [ret |-> Slice(SortedDesc(scored), 0, top_k), docs |-> scored,
                  requested |-> TRUE]

\* One call of rerank; the scoring endpoint's behaviour is the input. rr_response
\* stays None when the call returns or raises before the request.
Rerank ==
    /\ rr_pc = "idle"
    /\ \E resp \in Responses(Len(rr_docs)) :
         LET call == RerankCall(rr_docs, rr_top_k, resp)
         IN /\ rr_response' = IF call.requested THEN resp ELSE None
            /\ rr_result' = call.ret
            /\ rr_docs' = call.docs
    /\ rr_pc' = "done"
    /\ UNCHANGED <<rr_input, rr_top_k>>

(***************************************************************************)
(*                      _chunk_text (ingestion.py)                         *)
(* A text is a sequence of characters.                                     *)
(***************************************************************************)
\* Bounds of the texts and parameters explored.
MaxTextLen == 5
MaxChunkSize == 3
MaxOverlap == 2

\* One letter, and the three characters the separators are made of.
Alphabet == {"a", " ", ".", "\n"}
Whitespace == {" ", "\n"}

Texts == UNION {[1..n -> Alphabet] : n \in 0..MaxTextLen}

\* seps = ['\n\n', '\n', '. ', ' ']
seps == << <<"\n", "\n">>, <<"\n">>, <<".", " ">>, <<" ">> >>

\* Whether sep occurs in text at position k.
OccursAt(text, sep, k) ==
    /\ k + Len(sep) - 1 <= Len(text)
    /\ \A j \in 1..Len(sep) : text[k + j - 1] = sep[j]

\* text.split(sep): the parts between the non-overlapping occurrences of sep,
\* found left to right.
RECURSIVE Split(_, _)
Split(text, sep) ==
    LET hits == {k \in 1..Len(text) : OccursAt(text, sep, k)}
    IN IF hits = {} THEN <<text>>
       ELSE LET k == CHOOSE h \in hits : \A g \in hits : h <= g
            IN <<SubSeq(text, 1, k - 1)>> \o Split(SubSeq(text, k + Len(sep), Len(text)), sep)

\* The greedy loop over the parts from position i, with the chunks closed so
\* far and the running chunk `current`; ends with `if current: chunks.append`.
RECURSIVE Accumulate(_, _, _, _, _, _)
Accumulate(parts, i, sep, chunk_size, chunks, current) ==
    IF i > Len(parts)
    THEN IF current # <<>> THEN Append(chunks, current) ELSE chunks
    ELSE LET part == parts[i]
             candidate == IF current # <<>> THEN current \o sep \o part ELSE part
         IN IF Len(candidate) > chunk_size
            THEN IF current # <<>>
                 THEN Accumulate(parts, i + 1, sep, chunk_size, Append(chunks, current), part)
                 ELSE Accumulate(parts, i + 1, sep, chunk_size, Append(chunks, part), <<>>)
            ELSE Accumulate(parts, i + 1, sep, chunk_size, chunks, candidate)

\* [text[i:i+chunk_size] for i in range(0, len(text), chunk_size)]
RECURSIVE HardSplit(_, _)
HardSplit(text, chunk_size) ==
    IF text = <<>> THEN <<>>
    ELSE <<SubSeq(text, 1, Min(chunk_size, Len(text)))>>
         \o HardSplit(SubSeq(text, chunk_size + 1, Len(text)), chunk_size)

\* str.strip(): leading and trailing whitespace removed.
RECURSIVE LStrip(_)
LStrip(s) == IF s # <<>> /\ Head(s) \in Whitespace THEN LStrip(Tail(s)) ELSE s
RECURSIVE RStrip(_)
RStrip(s) ==
    IF s # <<>> /\ s[Len(s)] \in Whitespace THEN RStrip(SubSeq(s, 1, Len(s) - 1)) ELSE s
Strip(s) == RStrip(LStrip(s))

\* prev[-overlap:] if len(prev) > overlap else prev
OverlapText(prev, overlap) ==
    IF Len(prev) > overlap THEN SubSeq(prev, Len(prev) - overlap + 1, Len(prev)) ELSE prev

\* The overlap pass that ends every call of _chunk_text.
AddOverlap(result, overlap) ==
    [i \in 1..Len(result) |->
        Strip(IF i > 1 /\ overlap > 0
              THEN OverlapText(result[i - 1], overlap) \o result[i]
              ELSE result[i])]

FirstSep_LowestPriority(text) ==
    LET ok == {s \in 1..Len(seps) : Len(Split(text, seps[s])) > 1}
    IN IF ok = {} THEN 0 ELSE CHOOSE s \in ok : \A t \in ok : s >= t
\* The index of the first separator that splits text into more than one part
\* (0 when none does: the for loop's else branch).
FirstSep(text) ==
    LET ok == {s \in 1..Len(seps) : Len(Split(text, seps[s])) > 1}
    IN IF ok = {} THEN 0 ELSE CHOOSE s \in ok : \A t \in ok : s <= t

\* _chunk_text(text, chunk_size, overlap)
RECURSIVE ChunkText(_, _, _)
RECURSIVE ChunkResult(_, _, _)
RECURSIVE Rechunk(_, _, _, _)
\* result.extend(_chunk_text(chunk, ...)) for a chunk longer than chunk_size,
\* result.append(chunk) otherwise, over the chunks from position i.
Rechunk(chunks, i, chunk_size, overlap) ==
    IF i > Len(chunks) THEN <<>>
    ELSE (IF Len(chunks[i]) > chunk_size
          THEN ChunkText(chunks[i], chunk_size, overlap)
          ELSE <<chunks[i]>>)
         \o Rechunk(chunks, i + 1, chunk_size, overlap)

\* chunks: the greedy pass over the parts of the first separator that splits.
FirstPass(text, chunk_size) ==
    LET s == FirstSep(text)
    IN Accumulate(Split(text, seps[s]), 1, seps[s], chunk_size, <<>>, <<>>)

\* result: the list the overlap pass of the call runs over.
ChunkResult(text, chunk_size, overlap) ==
    IF FirstSep(text) = 0 THEN HardSplit(text, chunk_size)
    ELSE Rechunk(FirstPass(text, chunk_size), 1, chunk_size, overlap)

ChunkText(text, chunk_size, overlap) ==
    AddOverlap(ChunkResult(text, chunk_size, overlap), overlap)

\* The number of nested recursive calls a call of _chunk_text makes: 0 when
\* it re-chunks nothing.
RECURSIVE CallDepth(_, _)
CallDepth(text, chunk_size) ==
    IF FirstSep(text) = 0 THEN 0
    ELSE LET chunks == FirstPass(text, chunk_size)
             nested == {CallDepth(chunks[k], chunk_size) :
                           k \in {j \in 1..Len(chunks) : Len(chunks[j]) > chunk_size}}
         IN IF nested = {} THEN 0
            ELSE 1 + (CHOOSE d \in nested : \A e \in nested : d >= e)

\* The text of a page after the cleaning of process_pdf: no newline, no run
\* of spaces, no space at either end.
IsCleaned(text) ==
    /\ \A k \in 1..Len(text) : text[k] # "\n"
    /\ \A k \in 1..(Len(text) - 1) : ~(text[k] = " " /\ text[k + 1] = " ")
    /\ Strip(text) = text

\* One call _chunk_text(ck_text, ck_size, ck_overlap).
Chunk ==
    /\ ck_pc = "idle"
    /\ ck_out' = ChunkText(ck_text, ck_size, ck_overlap)
    /\ ck_pc' = "done"
    /\ UNCHANGED <<ck_text, ck_size, ck_overlap>>

(***************************************************************************)
(*     The application: upload_document, process_pdf, VectorService,       *)
(*     query_documents                                                     *)
(***************************************************************************)
\* Largest number of requests served in one behaviour.
MaxRequests == 2

\* batch_size = 100 in upsert_chunks
BatchSize == 100
\* k=5 in query_documents' search call, and results[:5]
TopK == 5
\* len(all_text.strip()) < 10 in process_pdf
MinTextLen == 10

\* A page after extraction and cleaning: the length of its cleaned text and the
\* number of chunks _chunk_text(text) makes of it.
Blank == [chars |-> 0, chunks |-> 0]
Short == [chars |-> 5, chunks |-> 1]
Tiny == [chars |-> 4, chunks |-> 1]
Long == [chars |-> 50499, chunks |-> 101]

\* The uploaded bytes: what PdfReader makes of them, and the pages when it reads them.
Contents ==
    {[parse |-> "unreadable", pages |-> <<>>],     \* PdfReader(...) raises
     [parse |-> "crash", pages |-> <<>>]}          \* reader.pages raises
    \cup {[parse |-> "ok", pages |-> pp] :
            pp \in {<<>>, <<Short>>, <<Blank, Short>>, <<Tiny, Tiny>>, <<Short, Short>>,
                   <<Short, Long>>}}

Filenames == {"a.pdf", "b.pdf", "notes.txt"}

\* file.filename and file.filename.lower().endswith(".pdf")
IsPdfName(filename) == filename \in {"a.pdf", "b.pdf"}

\* f"{filename}_chunk_{i}"
ChunkId(filename, i) == <<filename, "_chunk_", i>>

\* The text of chunk idx of page page_number (never blank: a chunk of a cleaned,
\* non-empty page has a non-whitespace character).
ChunkTextOf(page_number, idx) == <<"text", page_number, idx>>

\* The record process_pdf appends for chunk idx of page page_number.
Document(filename, page_number, idx) ==
    [id |-> ChunkId(filename, idx),
     text |-> ChunkTextOf(page_number, idx),
     metadata |-> [text |-> ChunkTextOf(page_number, idx),
                   filename |-> filename,
                   page_number |-> page_number,
                   chunk_index |-> idx]]

\* The records of the pages from page i on (pages are numbered from 1; a page
\* without text is skipped).
RECURSIVE PageDocuments(_, _, _)
PageDocuments(pages, i, filename) ==
    IF i > Len(pages) THEN <<>>
    ELSE [idx \in 1..pages[i].chunks |-> Document(filename, i, idx - 1)]
         \o PageDocuments(pages, i + 1, filename)

\* len(all_text): the cleaned texts of the pages, concatenated.
RECURSIVE TotalChars(_, _)
TotalChars(pages, i) ==
    IF i > Len(pages) THEN 0 ELSE pages[i].chars + TotalChars(pages, i + 1)

process_pdf_NoWrap(content, filename) ==
    IF content.parse \in {"unreadable", "crash"} THEN [err |-> "Exception", docs |-> <<>>]
    ELSE IF TotalChars(content.pages, 1) < MinTextLen
    THEN [err |-> "ValueError", docs |-> <<>>]
    ELSE [err |-> None, docs |-> PageDocuments(content.pages, 1, filename)]
process_pdf_NoLengthCheck(content, filename) ==
    IF content.parse = "unreadable" THEN [err |-> "ValueError", docs |-> <<>>]
    ELSE IF content.parse = "crash" THEN [err |-> "Exception", docs |-> <<>>]
    ELSE [err |-> None, docs |-> PageDocuments(content.pages, 1, filename)]
\* process_pdf(file_bytes, filename): err is the exception raised, or None.
process_pdf(content, filename) ==
    IF content.parse = "unreadable" THEN [err |-> "ValueError", docs |-> <<>>]
    ELSE IF content.parse = "crash" THEN [err |-> "Exception", docs |-> <<>>]
    ELSE IF TotalChars(content.pages, 1) < MinTextLen
    THEN [err |-> "ValueError", docs |-> <<>>]
    ELSE [err |-> None, docs |-> PageDocuments(content.pages, 1, filename)]

\* VectorService._load_model on a service whose model is `model` (0 is None),
\* when `built` instances exist: a new instance is constructed only for None.
\* The handlers are coroutines of one event loop and _load_model does not
\* await, so the test and the assignment are one step.
_load_model(model, built) ==
    IF model = 0 THEN [model |-> built + 1, built |-> built + 1]
    ELSE [model |-> model, built |-> built]

\* chunk.get("filename", "file"): the records of process_pdf carry the filename
\* under metadata only.
FilenameOf(chunk) == IF "filename" \in DOMAIN chunk THEN chunk.filename ELSE "file"

\* valid_chunks: the chunks whose text is not blank.
ValidChunks(chunks_data) == SelectSeq(chunks_data, LAMBDA c : c.text # <<>>)

\* The embedding of a text.
Embedding(text) == <<"embedding", text>>

\* The vectors list of upsert_chunks: ids are assigned by position in valid_chunks.
Vectors(valid_chunks) ==
    [k \in 1..Len(valid_chunks) |->
        [id |-> ChunkId(FilenameOf(valid_chunks[k]), k - 1),
         values |-> Embedding(valid_chunks[k].text),
         metadata |-> valid_chunks[k].metadata]]

\* The batches range(0, len(vectors), batch_size) makes: [lo, hi] are the
\* positions (from 1) of the vectors of batch b.
NumBatches(n) == (n + BatchSize - 1) \div BatchSize
BatchOf(n, b) == [lo |-> (b - 1) * BatchSize + 1, hi |-> Min(b * BatchSize, n)]

\* self.index.upsert(vectors=batch): each vector replaces the entry of its id.
IndexUpsert(idx, batch) ==
    LET ids == {batch[k].id : k \in 1..Len(batch)}
    IN [id \in DOMAIN idx \cup ids |->
          IF id \in ids
          THEN LET k == CHOOSE j \in 1..Len(batch) :
                          batch[j].id = id /\ \A l \in (j + 1)..Len(batch) : batch[l].id # id
               IN [values |-> batch[k].values, metadata |-> batch[k].metadata]
          ELSE idx[id]]

\* The batch loop from batch b: fail_at is the batch whose write raises (0: none).
\* Returns the index and the log of the writes attempted.
RECURSIVE UpsertBatchesNoStop(_, _, _, _)
UpsertBatchesNoStop(idx, vectors, b, fail_at) ==
    IF b > NumBatches(Len(vectors)) THEN [index |-> idx, log |-> <<>>]
    ELSE LET r == BatchOf(Len(vectors), b)
         IN IF b = fail_at
            THEN LET rest == UpsertBatchesNoStop(idx, vectors, b + 1, fail_at)
                 IN [index |-> rest.index,
                     log |-> <<[lo |-> r.lo, hi |-> r.hi, ok |-> FALSE]>> \o rest.log]
            ELSE LET rest == UpsertBatchesNoStop(IndexUpsert(idx, SubSeq(vectors, r.lo, r.hi)),
                                                 vectors, b + 1, fail_at)
                 IN [index |-> rest.index,
                     log |-> <<[lo |-> r.lo, hi |-> r.hi, ok |-> TRUE]>> \o rest.log]
RECURSIVE UpsertBatches(_, _, _, _)
UpsertBatches(idx, vectors, b, fail_at) ==
    IF b > NumBatches(Len(vectors)) THEN [index |-> idx, log |-> <<>>]
    ELSE LET r == BatchOf(Len(vectors), b)
         IN IF b = fail_at
            THEN [index |-> idx, log |-> <<[lo |-> r.lo, hi |-> r.hi, ok |-> FALSE]>>]
            ELSE LET rest == UpsertBatches(IndexUpsert(idx, SubSeq(vectors, r.lo, r.hi)),
                                           vectors, b + 1, fail_at)
                 IN [index |-> rest.index,
                     log |-> <<[lo |-> r.lo, hi |-> r.hi, ok |-> TRUE]>> \o rest.log]

upsert_chunks_EmbedLate(idx, chunks_data, model, built, embed, fail_at) ==
    LET vectors == Vectors(ValidChunks(chunks_data))
        loaded == _load_model(model, built)
        run == UpsertBatches(idx, vectors, 1, fail_at)
    IN [err |-> IF embed # "ok" \/ \E k \in 1..Len(run.log) : ~run.log[k].ok
                THEN "Exception" ELSE None,
        index |-> run.index, vectors |-> vectors, log |-> run.log,
        model |-> loaded.model, built |-> loaded.built, used |-> <<loaded.model>>,
        embedded |-> embed = "ok"]
\* VectorService.upsert_chunks(chunks_data) on a service with model `model`:
\* embed is what embed_chunks does ("ok", "load_fails": TextEmbedding(...)
\* raises, "embed_fails": model.embed raises), fail_at the failing batch;
\* embedded tells whether embed_chunks returned.
upsert_chunks(idx, chunks_data, model, built, embed, fail_at) ==
    LET valid == ValidChunks(chunks_data)
        vectors == Vectors(valid)
        loaded == IF embed = "load_fails" /\ model = 0
                  THEN [model |-> model, built |-> built]
                  ELSE _load_model(model, built)
        nothing == [err |-> "Exception", index |-> idx, vectors |-> <<>>, log |-> <<>>,
                    model |-> model, built |-> built, used |-> <<>>, embedded |-> FALSE]
    IN IF valid = <<>> THEN [nothing EXCEPT !.err = "ValueError"]
       ELSE IF embed = "load_fails" /\ model = 0 THEN nothing
       ELSE IF embed = "embed_fails"
       THEN [nothing EXCEPT !.model = loaded.model, !.built = loaded.built,
                            !.used = <<loaded.model>>]
       ELSE LET run == UpsertBatches(idx, vectors, 1, fail_at)
            IN [err |-> IF \E k \in 1..Len(run.log) : ~run.log[k].ok
                        THEN "Exception" ELSE None,
                index |-> run.index, vectors |-> vectors, log |-> run.log,
                model |-> loaded.model, built |-> loaded.built, used |-> <<loaded.model>>,
                embedded |-> TRUE]

Failure(code, detail) == [status |-> code, detail |-> detail]

\* POST /api/upload: upload_document(file), with upload.py's vector_service.
UploadDocument ==
    /\ requests_done < MaxRequests
    /\ requests_done' = requests_done + 1
    /\ \E filename \in Filenames, read_ok \in BOOLEAN, content \in Contents,
          embed \in {"ok", "load_fails", "embed_fails"} :
         LET parsed == process_pdf(content, filename)
             req == [kind |-> "upload", filename |-> filename, read_ok |-> read_ok,
                     content |-> content, chunks |-> <<>>, upsert |-> "not_called",
                     vectors |-> <<>>, log |-> <<>>]
             rejected(code, detail) ==
                 /\ last_request' = req
                 /\ last_response' = Failure(code, detail)
                 /\ UNCHANGED <<index, upload_model, models_built, model_uses>>
         IN IF ~IsPdfName(filename)
            THEN rejected(400, "Only PDF files are supported.")
            ELSE IF ~read_ok
            THEN rejected(400, "Failed to read file.")
            ELSE IF parsed.err = "ValueError"
            THEN rejected(400, "ValueError")
            ELSE IF parsed.err = "Exception"
            THEN rejected(422, "PDF processing failed.")
            ELSE IF parsed.docs = <<>>
            THEN rejected(400, "The PDF appears to be empty or image-only. Use a text-based PDF.")
            ELSE \E fail_at \in 0..NumBatches(Len(parsed.docs)) :
                   LET up == upsert_chunks(index, parsed.docs, upload_model, models_built,
                                           embed, fail_at)
                   IN /\ index' = up.index
                      /\ upload_model' = up.model
                      /\ models_built' = up.built
                      /\ model_uses' = model_uses \o up.used
                      /\ last_request' = [req EXCEPT !.chunks = parsed.docs,
                                                     !.upsert = IF up.embedded THEN "embedded"
                                                                ELSE "embed_failed",
                                                     !.vectors = up.vectors, !.log = up.log]
                      /\ last_response' =
                            IF up.err # None
                            THEN Failure(503, "Document indexing failed. Try again later.")
                            ELSE [status |-> 200,
                                  body |-> [status |-> "success", filename |-> filename,
                                            chunks |-> Len(parsed.docs)]]
    /\ UNCHANGED query_model

\* The matches index.query returns for one stored document prefix: the n
\* entries of lowest position, by descending score.
Matches(idx, prefix, n) ==
    [k \in 1..n |-> [id |-> ChunkId(prefix, k - 1), score |-> TopK - k,
                     metadata |-> idx[ChunkId(prefix, k - 1)].metadata]]

\* VectorService.search(query, k) on a service with model `model`: outcome is
\* "ok", "load_fails" or "search_fails" (embedding or index.query raises).
search(idx, model, built, outcome, matches) ==
    LET loaded == _load_model(model, built)
    IN IF outcome = "load_fails" /\ model = 0
       THEN [err |-> "Exception", matches |-> <<>>, model |-> model, built |-> built,
             used |-> <<>>]
       ELSE [err |-> IF outcome = "ok" THEN None ELSE "Exception",
             matches |-> IF outcome = "ok" THEN matches ELSE <<>>,
             model |-> loaded.model, built |-> loaded.built, used |-> <<loaded.model>>]

TopDocs_Reversed(results) ==
    [i \in 1..Min(Len(results), TopK) |-> results[Min(Len(results), TopK) + 1 - i]]
\* top_docs = results[:5]
TopDocs(results) == Slice(results, 0, TopK)

\* POST /api/query: query_documents(request), with query.py's vector_service.
QueryDocuments ==
    /\ requests_done < MaxRequests
    /\ requests_done' = requests_done + 1
    /\ \E outcome \in {"ok", "load_fails", "search_fails"},
          prefix \in {id[1] : id \in DOMAIN index} \cup {"file"},
          n \in 0..TopK :
         /\ \A k \in 1..n : ChunkId(prefix, k - 1) \in DOMAIN index
         /\ LET found == search(index, query_model, models_built, outcome,
                                Matches(index, prefix, n))
                top_docs == TopDocs(found.matches)
            IN /\ query_model' = found.model
               /\ models_built' = found.built
               /\ model_uses' = model_uses \o found.used
               /\ last_request' = [kind |-> "query", raised |-> found.err # None,
                                   results |-> found.matches]
               /\ last_response' =
                     IF found.err # None THEN Failure(503, "Search failed")
                     ELSE IF found.matches = <<>>
                     THEN [status |-> 200, answer |-> <<"No relevant information found.">>,
                           sources |-> <<>>]
                     ELSE [status |-> 200,
                           answer |-> <<"Top Search Results">> \o
                               [i \in 1..Len(top_docs) |->
                                   [result |-> i, score |-> top_docs[i].score,
                                    text |-> top_docs[i].metadata.text]],
                           sources |-> [i \in 1..Len(top_docs) |->
                                           [text |-> top_docs[i].metadata.text,
                                            metadata |-> top_docs[i].metadata,
                                            score |-> top_docs[i].score]]]
    /\ UNCHANGED <<index, upload_model>>

(***************************************************************************)
(*                          The specifications                             *)
(* Each specification starts one component from its inputs and holds the   *)
(* other components at rest.                                               *)
(***************************************************************************)
\* The application: uploads and queries against one index.
Init ==
    /\ llm_provider = "groq" /\ llm_model = "" /\ api_keys = {}
    /\ llm_backend = <<>> /\ llm_calls = <<>> /\ llm_result = None /\ llm_pc = "idle"
    /\ rr_docs = <<>> /\ rr_input = <<>> /\ rr_top_k = 1
    /\ rr_response = None /\ rr_result = None /\ rr_pc = "idle"
    /\ ck_text = <<>> /\ ck_size = 1 /\ ck_overlap = 0 /\ ck_out = <<>> /\ ck_pc = "idle"
    /\ index = <<>>
    /\ upload_model = 0
    /\ query_model = 0
    /\ models_built = 0
    /\ model_uses = <<>>
    /\ requests_done = 0
    /\ last_request = [kind |-> "none"]
    /\ last_response = [status |-> 0]
Next ==
    \/ UploadDocument /\ UNCHANGED <<llm_vars, rr_vars, ck_vars>>
    \/ QueryDocuments /\ UNCHANGED <<llm_vars, rr_vars, ck_vars>>
Spec == Init /\ [][Next]_vars

\* LLMService alone: the service as constructed from the environment.
InitLLM ==
    /\ llm_provider \in ProviderSettings
    /\ llm_model \in ModelSettings
    /\ api_keys \in SUBSET KeyedProviders
    /\ llm_backend = <<>> /\ llm_calls = <<>> /\ llm_result = None /\ llm_pc = "idle"
    /\ rr_docs = <<>> /\ rr_input = <<>> /\ rr_top_k = 1
    /\ rr_response = None /\ rr_result = None /\ rr_pc = "idle"
    /\ ck_text = <<>> /\ ck_size = 1 /\ ck_overlap = 0 /\ ck_out = <<>> /\ ck_pc = "idle"
    /\ index = <<>> /\ upload_model = 0 /\ query_model = 0 /\ models_built = 0
    /\ model_uses = <<>> /\ requests_done = 0
    /\ last_request = [kind |-> "none"] /\ last_response = [status |-> 0]
NextLLM == GenerateAnswer /\ UNCHANGED <<rr_vars, ck_vars, app_vars>>
SpecLLM == InitLLM /\ [][NextLLM]_vars

\* RerankService alone: the arguments of one call.
InitRerank ==
    /\ llm_provider = "groq" /\ llm_model = "" /\ api_keys = {}
    /\ llm_backend = <<>> /\ llm_calls = <<>> /\ llm_result = None /\ llm_pc = "idle"
    /\ rr_docs \in DocLists
    /\ rr_input = rr_docs
    /\ rr_top_k \in 1..MaxTopK
    /\ rr_response = None /\ rr_result = None /\ rr_pc = "idle"
    /\ ck_text = <<>> /\ ck_size = 1 /\ ck_overlap = 0 /\ ck_out = <<>> /\ ck_pc = "idle"
    /\ index = <<>> /\ upload_model = 0 /\ query_model = 0 /\ models_built = 0
    /\ model_uses = <<>> /\ requests_done = 0
    /\ last_request = [kind |-> "none"] /\ last_response = [status |-> 0]
NextRerank == Rerank /\ UNCHANGED <<llm_vars, ck_vars, app_vars>>
SpecRerank == InitRerank /\ [][NextRerank]_vars

\* _chunk_text alone: the arguments of one call.
InitChunk ==
    /\ llm_provider = "groq" /\ llm_model = "" /\ api_keys = {}
    /\ llm_backend = <<>> /\ llm_calls = <<>> /\ llm_result = None /\ llm_pc = "idle"
    /\ rr_docs = <<>> /\ rr_input = <<>> /\ rr_top_k = 1
    /\ rr_response = None /\ rr_result = None /\ rr_pc = "idle"
    /\ ck_text \in Texts
    /\ ck_size \in 1..MaxChunkSize
    /\ ck_overlap \in 0..MaxOverlap
    /\ ck_out = <<>> /\ ck_pc = "idle"
    /\ index = <<>> /\ upload_model = 0 /\ query_model = 0 /\ models_built = 0
    /\ model_uses = <<>> /\ requests_done = 0
    /\ last_request = [kind |-> "none"] /\ last_response = [status |-> 0]
NextChunk == Chunk /\ UNCHANGED <<llm_vars, rr_vars, app_vars>>
SpecChunk == InitChunk /\ [][NextChunk]_vars

(***************************************************************************)
(*                    Properties of generate_answer                        *)
(***************************************************************************)
\* The candidates in priority order: the default provider first, then the other
\* providers of LLM_PROVIDERS, each with its models in list order.
RECURSIVE CandidatesFrom(_, _, _)
CandidatesFrom(order, i, model) ==
    IF i > Len(order) THEN <<>>
    ELSE [j \in 1..Len(ModelsOf(order[i], model)) |-> <<order[i], ModelsOf(order[i], model)[j]>>]
         \o CandidatesFrom(order, i + 1, model)
PriorityList == CandidatesFrom(ProviderOrder(llm_provider), 1, llm_model)

\* Candidate c can be called (its provider has a key) and answers with a
\* non-empty response.
Yields(c) == c[1] \in api_keys /\ llm_backend[c] # Raised /\ llm_backend[c] # ""

\* The positions of the priority list whose candidate yields a non-empty response.
YieldingPositions == {k \in 1..Len(PriorityList) : Yields(PriorityList[k])}
FirstYielding == CHOOSE k \in YieldingPositions : \A j \in YieldingPositions : k <= j

\* The candidate whose call ended generate_answer with an answer.
Winner == llm_calls[Len(llm_calls)]
Succeeded == llm_pc = "done" /\ llm_result.answer # None

\* C1: generate_answer returns the response of the first candidate in priority
\* order that yields a non-empty response; every candidate before it that can be
\* called was called, in order, and nothing after it is called.
C1_FirstNonEmptyWins ==
    (llm_pc = "done" /\ YieldingPositions # {}) =>
        /\ llm_result.answer = llm_backend[PriorityList[FirstYielding]]
        /\ llm_calls = SelectSeq(SubSeq(PriorityList, 1, FirstYielding),
                                 LAMBDA c : c[1] \in api_keys)

\* C7: when every candidate fails, is not configured, or returns an empty
\* response, generate_answer returns answer None, a non-null error and
\* fallback_used true.
C7_AllFailedIsStructured ==
    (llm_pc = "done" /\ YieldingPositions = {}) =>
        /\ llm_result.answer = None
        /\ llm_result.error # None
        /\ llm_result.fallback_used = TRUE

\* A run in which all three keyed providers were called, calls raised and a call
\* returned an empty response, and the result is the structured failure.
C7_Witness ==
    /\ llm_pc = "done"
    /\ YieldingPositions = {}
    /\ api_keys = KeyedProviders
    /\ \E k \in 1..Len(llm_calls) : llm_backend[llm_calls[k]] = Raised
    /\ \E k \in 1..Len(llm_calls) : llm_backend[llm_calls[k]] = ""
    /\ llm_result.error = "All LLM providers failed."

\* C8: an answer produced by a provider other than the configured default
\* provider is returned with fallback_used true and error null.
C8_OtherProviderSetsFallback ==
    (Succeeded /\ Winner[1] # llm_provider) =>
        /\ llm_result.answer = llm_backend[Winner]
        /\ llm_result.fallback_used = TRUE
        /\ llm_result.error = None

\* Default groq is called and fails, openai answers.
C8_Witness ==
    /\ Succeeded
    /\ llm_provider = "groq"
    /\ llm_calls[1][1] = "groq"
    /\ Winner[1] = "openai"
    /\ llm_result.fallback_used = TRUE

\* C9 as stated: fallback_used is true whenever the winning candidate is not the
\* first model of the default provider, a later model of the default provider
\* included.
C9_NotFirstCandidateSetsFallback ==
    (Succeeded /\ Winner # PriorityList[1]) => llm_result.fallback_used = TRUE

\* C9 amended: fallback_used tells whether the winning provider differs from the
\* configured default provider; a later model of the default provider wins with
\* fallback_used false.
C9_FallbackIsPerProvider ==
    Succeeded => llm_result.fallback_used = (Winner[1] # llm_provider)

\* The first model of the default provider raises and its second model answers.
C9_Witness ==
    /\ Succeeded
    /\ Len(llm_calls) = 2
    /\ Winner[1] = llm_provider
    /\ Winner = PriorityList[2]
    /\ llm_result.fallback_used = FALSE

(***************************************************************************)
(*                         Properties of rerank                            *)
(***************************************************************************)
\* The scoring step of the finished call failed: the request raised, the status
\* was not 200, the body did not parse, the scores were not a list of the
\* candidates' length, or sorting by the received scores raised.
ScoringFailed ==
    \/ rr_response.kind # "list"
    \/ Len(rr_response.scores) # Len(rr_input)
    \/ SortRaises(AssignScores(rr_input, rr_response.scores))

\* Every document of the call has a "text" key, so the scoring request is made.
AllHaveText == \A i \in 1..Len(rr_input) : rr_input[i].has_text

\* C2: for non-empty documents, when the scoring step fails in any way, rerank
\* returns the first top_k input documents in their original order with every
\* field, "score" included, as it was in the input.
C2_FailureReturnsInputPrefix ==
    (rr_pc = "done" /\ rr_input # <<>> /\ AllHaveText /\ ScoringFailed) =>
        rr_result = Slice(rr_input, 0, rr_top_k)

\* C10: rerank returns a list and never raises, whatever the documents and
\* whatever the scoring request does.
C10_RerankNeverRaises ==
    rr_pc = "done" => rr_result # Raised

\* The scoring request of the finished call succeeded and its scores were used.
ScoringSucceeded ==
    /\ rr_pc = "done" /\ rr_input # <<>> /\ AllHaveText
    /\ ~ScoringFailed

\* C11: when the scoring request succeeds with as many scores as candidates,
\* document i gets score i, and rerank returns the top_k documents of highest
\* score by descending score; the result has min(top_k, len(documents))
\* documents, and empty input returns an empty list without a request.
C11_SuccessSortsByScore ==
    /\ ScoringSucceeded =>
         /\ \A i \in 1..Len(rr_input) :
               rr_docs[i] = [rr_input[i] EXCEPT !.score = rr_response.scores[i]]
         /\ Len(rr_result) = Min(rr_top_k, Len(rr_input))
         /\ \A k \in 1..Len(rr_result) : \E i \in 1..Len(rr_docs) : rr_result[k] = rr_docs[i]
         /\ \A k, l \in 1..Len(rr_result) : k < l => rr_result[k].id # rr_result[l].id
         /\ \A k \in 1..(Len(rr_result) - 1) : rr_result[k].score.v >= rr_result[k + 1].score.v
         /\ \A i \in 1..Len(rr_docs) :
               (\A k \in 1..Len(rr_result) : rr_result[k].id # rr_docs[i].id) =>
                   \A k \in 1..Len(rr_result) : rr_result[k].score.v >= rr_docs[i].score.v
    /\ (rr_pc = "done" /\ rr_result # Raised) => Len(rr_result) <= Min(rr_top_k, Len(rr_input))
    /\ (rr_pc = "done" /\ rr_input = <<>>) => (rr_result = <<>> /\ rr_response = None)

\* Three scored documents, the best one last in the input, cut to top_k = 2.
C11_Witness ==
    /\ ScoringSucceeded
    /\ Len(rr_input) = 3
    /\ rr_top_k = 2
    /\ rr_response.scores = <<Num(1), Num(1), Num(2)>>
    /\ rr_result[1].id = 3
    /\ rr_result[2].id = 1

(***************************************************************************)
(*                       Properties of _chunk_text                         *)
(***************************************************************************)
\* C5: every chunk _chunk_text returns has length <= chunk_size + overlap,
\* chunks that come from re-chunking an oversized part included.
C5_ChunkLengthBound ==
    ck_pc = "done" => \A i \in 1..Len(ck_out) : Len(ck_out[i]) <= ck_size + ck_overlap

\* The non-whitespace characters of s, in order.
NonWhitespace(s) == SelectSeq(s, LAMBDA c : c \notin Whitespace)

\* The sequences of ss, concatenated.
RECURSIVE Flatten(_)
Flatten(ss) == IF ss = <<>> THEN <<>> ELSE Head(ss) \o Flatten(Tail(ss))

\* C13: for every cleaned text, taking the prepended overlap prefix off each
\* chunk after the first and concatenating the chunks gives the text back up to
\* whitespace: the same non-whitespace characters in the same order.
C13_RoundTrip ==
    (ck_pc = "done" /\ IsCleaned(ck_text)) =>
        LET result == ChunkResult(ck_text, ck_size, ck_overlap)
            prefix(i) == IF i > 1 /\ ck_overlap > 0
                         THEN OverlapText(result[i - 1], ck_overlap) ELSE <<>>
            body(i) == SubSeq(NonWhitespace(ck_out[i]), Len(NonWhitespace(prefix(i))) + 1,
                              Len(NonWhitespace(ck_out[i])))
        IN Flatten([i \in 1..Len(ck_out) |-> body(i)]) = NonWhitespace(ck_text)

\* C15: the overlap prefix is applied once, by the final pass over the
\* top-level list: the returned chunks are the chunks made without any overlap,
\* re-chunked parts included, each after the first prefixed with the tail of
\* the one before it.
C15_OverlapAppliedOnce ==
    ck_pc = "done" => ck_out = AddOverlap(ChunkResult(ck_text, ck_size, 0), ck_overlap)

\* C17: _chunk_text returns for every text and chunk_size >= 1: a chunk it
\* re-chunks is a single part of the split, so holds neither the separator of
\* the split nor one of higher priority, and the call on it falls back or uses
\* a later separator; the nesting of calls is bounded by the separators left,
\* hence by 4; the empty text gives the empty list.
C17_RecursionDescends ==
    LET s == FirstSep(ck_text)
        chunks == FirstPass(ck_text, ck_size)
    IN /\ ck_size >= 1
       /\ s # 0 =>
            \A k \in 1..Len(chunks) :
               Len(chunks[k]) > ck_size =>
                  /\ \E j \in 1..Len(Split(ck_text, seps[s])) :
                        Split(ck_text, seps[s])[j] = chunks[k]
                  /\ \A t \in 1..s : Len(Split(chunks[k], seps[t])) = 1
                  /\ FirstSep(chunks[k]) = 0 \/ FirstSep(chunks[k]) > s
       /\ CallDepth(ck_text, ck_size) <= (IF s = 0 THEN 0 ELSE Len(seps) + 1 - s)
       /\ CallDepth(ck_text, ck_size) <= 4
       /\ ck_pc = "done" =>
            /\ ck_out = ChunkText(ck_text, ck_size, ck_overlap)
            /\ Len(ck_out) <= Len(ck_text)
            /\ ck_text = <<>> => ck_out = <<>>

\* A finished call that re-chunked a part of the newline split at the space
\* separator and a part of that by the fixed-width fallback.
C17_Witness ==
    /\ ck_pc = "done"
    /\ FirstSep(ck_text) = 2
    /\ CallDepth(ck_text, ck_size) = 2
    /\ Len(ck_out) >= 3

(***************************************************************************)
(*                     Properties of the application                       *)
(***************************************************************************)
\* The last request was an upload that reached the batch loop.
UploadWrote == last_request.kind = "upload" /\ last_request.log # <<>>

\* C3: upsert_chunks writes the vectors in consecutive batches of at most 100, in
\* list order; a failing write is the last one attempted, the upload then
\* answers 503 and not success, and the batches written before it are in the
\* index; without a failure every vector is written.
C3_SequentialBatchesNoRollback ==
    UploadWrote =>
        LET log == last_request.log
            vectors == last_request.vectors
            failed == \E k \in 1..Len(log) : ~log[k].ok
        IN /\ log[1].lo = 1
           /\ \A k \in 1..Len(log) :
                /\ log[k].lo <= log[k].hi
                /\ log[k].hi - log[k].lo + 1 <= 100
                /\ log[k].hi <= Len(vectors)
                /\ k < Len(log) => /\ log[k].hi - log[k].lo + 1 = 100
                                   /\ log[k + 1].lo = log[k].hi + 1
                                   /\ log[k].ok
                /\ log[k].ok =>
                     \A j \in log[k].lo..log[k].hi :
                        /\ vectors[j].id \in DOMAIN index
                        /\ index[vectors[j].id] = [values |-> vectors[j].values,
                                                   metadata |-> vectors[j].metadata]
           /\ failed => last_response.status = 503
           /\ ~failed => /\ log[Len(log)].hi = Len(vectors)
                         /\ last_response.status = 200

\* An upload of 102 vectors whose second batch write fails: the first 100 are in
\* the index and the request answers 503.
C3_Witness ==
    /\ UploadWrote
    /\ Len(last_request.log) = 2
    /\ last_request.log[1].ok
    /\ ~last_request.log[2].ok
    /\ Cardinality(DOMAIN index) = 100
    /\ last_response.status = 503

\* C4: after a successful upload of filename F, the entries written have the
\* keys "F_chunk_i", one per chunk.
C4_KeysUseUploadedFilename ==
    (last_request.kind = "upload" /\ last_response.status = 200) =>
        /\ Len(last_request.vectors) = Len(last_request.chunks)
        /\ \A k \in 1..Len(last_request.vectors) :
              /\ last_request.vectors[k].id = ChunkId(last_request.filename, k - 1)
              /\ last_request.vectors[k].id \in DOMAIN index

\* C6: the embedding model is constructed at most once in the process and every
\* embed or search call uses that one instance.
C6_ModelBuiltOnce ==
    /\ models_built <= 1
    /\ \A i, j \in 1..Len(model_uses) : model_uses[i] = model_uses[j]

\* The last request was an upload, seen right after its handler ran.
IsUpload(r) == r.kind = "upload"

\* The stage at which the handler stops for upload request r: "none" when
\* every stage succeeds.
FailedStage(r) ==
    IF ~IsPdfName(r.filename) THEN "filename"
    ELSE IF ~r.read_ok THEN "read"
    ELSE IF r.content.parse = "unreadable" THEN "open"
    ELSE IF r.content.parse = "crash" THEN "parse"
    ELSE IF TotalChars(r.content.pages, 1) < MinTextLen \/ r.chunks = <<>> THEN "empty"
    ELSE IF r.upsert = "embed_failed" \/ \E k \in 1..Len(r.log) : ~r.log[k].ok THEN "index"
    ELSE "none"

\* The success response of upload request r.
SuccessResponse(r) ==
    [status |-> 200,
     body |-> [status |-> "success", filename |-> r.filename, chunks |-> Len(r.chunks)]]

\* C12 as stated: 400 for a non-.pdf filename, an unreadable file and an empty
\* or image-only PDF; 422 for every other parsing failure, the PDF reader
\* failing to open the bytes included; 503 for an indexing failure; the
\* success response only when every stage succeeded.
C12_StatusOfFailedStage ==
    IsUpload(last_request) =>
        LET stage == FailedStage(last_request)
        IN /\ stage \in {"filename", "read", "empty"} => last_response.status = 400
           /\ stage \in {"open", "parse"} => last_response.status = 422
           /\ stage = "index" => last_response.status = 503
           /\ last_response.status = 200 <=> stage = "none"
           /\ stage = "none" => last_response = SuccessResponse(last_request)

\* C12 amended: 400 for a non-.pdf filename, an unreadable file, bytes the PDF
\* reader cannot open, and an empty or image-only PDF; 422 only when processing
\* fails with another exception after the reader opened the bytes; 503 for an
\* indexing failure; the success response only when every stage succeeded.
C12_StatusOfFailedStage_Amended ==
    IsUpload(last_request) =>
        LET stage == FailedStage(last_request)
        IN /\ stage \in {"filename", "read", "open", "empty"} => last_response.status = 400
           /\ stage = "parse" => last_response.status = 422
           /\ stage = "index" => last_response.status = 503
           /\ last_response.status = 200 <=> stage = "none"
           /\ stage = "none" => last_response = SuccessResponse(last_request)

\* A .pdf upload whose bytes the PDF reader cannot open is answered 400.
C12_Witness ==
    /\ IsUpload(last_request)
    /\ FailedStage(last_request) = "open"
    /\ last_response.status = 400

\* Upload request r reaches process_pdf, and its bytes cannot be opened or its
\* pages hold fewer than 10 characters of cleaned text in total.
FailsValidation(r) ==
    /\ IsUpload(r) /\ IsPdfName(r.filename) /\ r.read_ok
    /\ \/ r.content.parse = "unreadable"
       \/ r.content.parse = "ok" /\ TotalChars(r.content.pages, 1) < MinTextLen

SourceOf(doc) == [text |-> doc.metadata.text, metadata |-> doc.metadata, score |-> doc.score]

C18_OtherFilenamesKept ==
    [][(requests_done' # requests_done /\ IsUpload(last_request')
        /\ last_response'.status = 200) =>
          \A id \in DOMAIN index :
             index[id].metadata.filename # last_request'.filename =>
                 id \in DOMAIN index' /\ index'[id] = index[id]]_vars

\* Upload request r stops before the first batch write.
FailsBeforeWrite(r) ==
    /\ IsUpload(r)
    /\ \/ FailedStage(r) \in {"filename", "read", "open", "parse", "empty"}
       \/ r.upsert = "embed_failed"

\* C19: an upload that fails for its filename, in reading the file, in
\* process_pdf, for having no chunks or in embedding leaves the index
\* unchanged: no batch is written before every chunk is embedded.
C19_FailureBeforeWriteKeepsIndex ==
    [][(requests_done' # requests_done /\ FailsBeforeWrite(last_request')) =>
          /\ index' = index
          /\ last_request'.log = <<>>
          /\ last_response'.status # 200]_vars

\* An upload whose embedding fails is answered 503 and the index still holds
\* the entries of the earlier upload.
C19_Witness ==
    /\ IsUpload(last_request)
    /\ last_request.upsert = "embed_failed"
    /\ last_request.chunks # <<>>
    /\ last_response.status = 503
    /\ DOMAIN index # {}

====
